---- MODULE Spec2Model ----
(***************************************************************************)
(* ColdCache: capability-gated encrypted game distribution.                *)
(*                                                                         *)
(* Specifications over one set of variables:                               *)
(*   LedgerSpec    game_store Move module (publish, purchase, transfer)    *)
(*                 and the key servers' evaluation of                      *)
(*                 seal_approve_game_access;                               *)
(*   Spec          GameDownloadManager.downloadGame against a ledger that  *)
(*                 already holds two published games and their tokens;     *)
(*   UploadSpec    Layout.tsx uploadToWalrus / handlePublishGame           *)
(*                 (UploadFairSpec adds weak fairness of its steps).       *)
(*   ResolverSpec  SealOwnershipVerifier.findUserNFTForGame page by page   *)
(*                 and SecureDownloadPage's access check;                  *)
(*   SealSpec      ColdCacheSeal.encryptGame / decryptGame;                *)
(*   WhitelistSpec nft::nft mint_nft / transfer_nft and the key servers'   *)
(*                 evaluation of whitelist::seal_approve;                  *)
(*   StoreSpec     every state-changing entry point of game_store, with    *)
(*                 aborts recorded (purchase, deactivate, update price);   *)
(*   PageSpec      SecureDownloadPage while the connected account and the  *)
(*                 route parameter change.                                 *)
(***************************************************************************)
EXTENDS Integers, Sequences, FiniteSets, TLC

VARIABLES
    games,      \* ledger: Game objects, by game id
    nfts,       \* ledger: GameNFT objects, by token id
    keyReq,     \* last seal_approve_game_access evaluation by the key servers
    transfers,  \* number of transfer_game_nft transactions executed
    dl,         \* the downloadGame call in flight
    up,         \* the uploadToWalrus / handlePublishGame flow in flight
    walrus,     \* storage network: operations log and certified patches
    rs,         \* the findUserNFTForGame call in flight
    page,       \* SecureDownloadPage: accessChecked, accessGranted, gameData
    seal,       \* ColdCacheSeal: encryptGame calls made and the last decryptGame
    wl,         \* ledger: nft::NFT objects and the last whitelist::seal_approve
    tx          \* ledger: the last game_store transaction and its outcome

vars == <<games, nfts, keyReq, transfers, dl, up, walrus, rs, page, seal, wl, tx>>

(***************************************************************************)
(* Error messages are sequences of text fragments; String.includes is      *)
(* membership of a fragment, template strings are concatenation.           *)
(***************************************************************************)
Includes(msg, fragment) == \E i \in 1..Len(msg) : msg[i] = fragment

Null == "null"

Addresses == {"alice", "bob"}
GameIds == {"gA", "gB"}
\* Token ids in the order object::new hands them out, which is also the
\* order in which getOwnedObjects enumerates them.
NftOrder == <<"n1", "n2", "n3">>

NftIds == {NftOrder[i] : i \in 1..Len(NftOrder)}

NftIndex(n) == CHOOSE i \in 1..Len(NftOrder) : NftOrder[i] = n

\* Bound on the ledger transfers interleaved with calls.
MaxTransfers == 1

(***************************************************************************)
(* Storage network content.  A sealed object is the output of              *)
(* SealClient.encrypt: it carries the encryption id (policy scope ++       *)
(* nonce) and hides the data; anything else does not parse as an           *)
(* EncryptedObject.                                                        *)
(***************************************************************************)
PackageScope == "game_store"

EncryptionId(g) == <<PackageScope, g>>

\* threshold: 2 in encryptGame and in fetchKeys
SealThreshold == 2

Sealed(id, data) ==
    [kind |-> "sealed", id |-> id, threshold |-> SealThreshold, data |-> data]

Raw(data) == [kind |-> "raw", data |-> data]

\* The bytes of a game file before encryption.
Plaintext(g) == [kind |-> "plain", data |-> g]

\* No bytes (yet).
NoBytes == [kind |-> "none"]

Locators == {"", "walrus_tmp", "patchA", "patchB", "legacy"}

BlobAt(loc) ==
    CASE loc = "patchA" -> Sealed(EncryptionId("gA"), Plaintext("gA"))
      [] loc = "patchB" -> Sealed(EncryptionId("gB"), Plaintext("gB"))
      [] OTHER -> Raw("unencrypted-zip")

(***************************************************************************)
(* Ledger: game_store::game_store                                          *)
(***************************************************************************)
NoGame == [published |-> FALSE, id |-> Null, publisher |-> Null,
           walrus_blob_id |-> "", price |-> 0, is_active |-> FALSE,
           total_sales |-> 0]

NoNft == [minted |-> FALSE, game_id |-> Null, owner |-> Null,
          publisher |-> Null, is_publisher_nft |-> FALSE]

FreeNfts == {n \in NftIds : ~nfts[n].minted}

\* object::new: the next unused token id
NewNftId == CHOOSE n \in FreeNfts : \A m \in FreeNfts : NftIndex(n) <= NftIndex(m)

\* Abort codes of the module; NoAbort is a transaction that executed.
EInsufficientPayment == "EInsufficientPayment"
ENotOwner == "ENotOwner"
EGameNotActive == "EGameNotActive"
NoAbort == "executed"

\* Largest price and payment considered, in MIST.
MaxPrice == 1

\* The record of an executed or aborted transaction.  payment is the value
\* of the Coin<SUI> argument, paidTo the address transfer::public_transfer
\* sent it to, nft the token created or moved.
TxRecord(fn, sender, g, abort, payment, paidTo, nft) ==
    [fn |-> fn, sender |-> sender, game |-> g, abort |-> abort,
     payment |-> payment, paidTo |-> paidTo, nft |-> nft]

NoTx == TxRecord(Null, Null, Null, NoAbort, 0, Null, Null)

\* An aborted transaction leaves every object as it was.
Abort(fn, sender, g, code, payment) ==
    /\ tx' = TxRecord(fn, sender, g, code, payment, Null, Null)
    /\ UNCHANGED <<games, nfts>>

\* publish_game + publish_game_entry: create the Game, share it, mint the
\* publisher token and transfer it to the sender.
publish_game(g, sender, blob, price) ==
    /\ ~games[g].published
    /\ FreeNfts # {}
    /\ games' = [games EXCEPT ![g] =
                    [published |-> TRUE, id |-> g, publisher |-> sender,
                     walrus_blob_id |-> blob, price |-> price,
                     is_active |-> TRUE, total_sales |-> 0]]
    /\ nfts' = [nfts EXCEPT ![NewNftId] =
                    [minted |-> TRUE, game_id |-> g, owner |-> sender,
                     publisher |-> sender, is_publisher_nft |-> TRUE]]
    /\ tx' = TxRecord("publish_game", sender, g, NoAbort, 0, Null, NewNftId)

purchase_game_NoCount(g, buyer, payment) ==
    /\ games[g].published
    /\ IF ~games[g].is_active
          THEN Abort("purchase_game", buyer, g, EGameNotActive, payment)
          ELSE IF ~(payment >= games[g].price)
          THEN Abort("purchase_game", buyer, g, EInsufficientPayment, payment)
          ELSE /\ FreeNfts # {}
               /\ UNCHANGED games
               /\ nfts' = [nfts EXCEPT ![NewNftId] =
                               [minted |-> TRUE, game_id |-> games[g].id,
                                owner |-> buyer,
                                publisher |-> games[g].publisher,
                                is_publisher_nft |-> FALSE]]
               /\ tx' = TxRecord("purchase_game", buyer, g, NoAbort, payment,
                                 games[g].publisher, NewNftId)

\* purchase_game: the payment goes to the publisher; the new token is
\* returned to the buyer's transaction, which keeps it for the buyer.
purchase_game(g, buyer, payment) ==
    /\ games[g].published
    /\ IF ~games[g].is_active
          THEN Abort("purchase_game", buyer, g, EGameNotActive, payment)
          ELSE IF ~(payment >= games[g].price)
          THEN Abort("purchase_game", buyer, g, EInsufficientPayment, payment)
          ELSE /\ FreeNfts # {}
               /\ games' = [games EXCEPT ![g].total_sales = @ + 1]
               /\ nfts' = [nfts EXCEPT ![NewNftId] =
                               [minted |-> TRUE, game_id |-> games[g].id,
                                owner |-> buyer,
                                publisher |-> games[g].publisher,
                                is_publisher_nft |-> FALSE]]
               /\ tx' = TxRecord("purchase_game", buyer, g, NoAbort, payment,
                                 games[g].publisher, NewNftId)

\* transfer_game_nft: only the owner of an owned object can pass it by value.
transfer_game_nft(n, sender, to) ==
    /\ nfts[n].minted
    /\ nfts[n].owner = sender
    /\ to # sender
    /\ transfers < MaxTransfers
    /\ transfers' = transfers + 1
    /\ nfts' = [nfts EXCEPT ![n].owner = to]
    /\ tx' = TxRecord("transfer_game_nft", sender, nfts[n].game_id, NoAbort,
                      0, Null, n)
    /\ UNCHANGED games

deactivate_game_AnySender(g, sender) ==
    /\ games[g].published
    /\ games' = [games EXCEPT ![g].is_active = FALSE]
    /\ tx' = TxRecord("deactivate_game", sender, g, NoAbort, 0, Null, Null)
    /\ UNCHANGED nfts

\* deactivate_game(game, ctx)
deactivate_game(g, sender) ==
    /\ games[g].published
    /\ IF ~(games[g].publisher = sender)
          THEN Abort("deactivate_game", sender, g, ENotOwner, 0)
          ELSE /\ games' = [games EXCEPT ![g].is_active = FALSE]
               /\ tx' = TxRecord("deactivate_game", sender, g, NoAbort,
                                 0, Null, Null)
               /\ UNCHANGED nfts

update_game_price_Republish(g, new_price, sender) ==
    /\ games[g].published
    /\ IF ~(games[g].publisher = sender)
          THEN Abort("update_game_price", sender, g, ENotOwner, 0)
          ELSE /\ games' = [games EXCEPT ![g].price = new_price,
                                         ![g].walrus_blob_id = ""]
               /\ tx' = TxRecord("update_game_price", sender, g, NoAbort,
                                 0, Null, Null)
               /\ UNCHANGED nfts

\* update_game_price(game, new_price, ctx)
update_game_price(g, new_price, sender) ==
    /\ games[g].published
    /\ IF ~(games[g].publisher = sender)
          THEN Abort("update_game_price", sender, g, ENotOwner, 0)
          ELSE /\ games' = [games EXCEPT ![g].price = new_price]
               /\ tx' = TxRecord("update_game_price", sender, g, NoAbort,
                                 0, Null, Null)
               /\ UNCHANGED nfts

\* seal_approve_game_access(_id, nft, ctx): the body of the entry function.
\* The _id argument is not read.
seal_approve_game_access(id, nft, caller) ==
    (nft.publisher = caller) \/ (nft.is_publisher_nft = FALSE)

\* What a key server's dry run of the approval transaction yields: the
\* object argument must be a GameNFT owned by the sender, and the entry
\* function must not abort.
LedgerApproves(id, obj, caller) ==
    /\ obj \in NftIds
    /\ nfts[obj].minted
    /\ nfts[obj].owner = caller
    /\ seal_approve_game_access(id, nfts[obj], caller)

(***************************************************************************)
(* lib/seal.ts: ColdCacheSeal                                              *)
(***************************************************************************)
\* Key servers configured for the network.
KeyServers == 3

Ok(v) == [ok |-> TRUE, val |-> v]

Throw(cls, msg) == [ok |-> FALSE, cls |-> cls, msg |-> msg]

\* createSessionKey: always throws.
createSessionKey ==
    Throw("Error", <<"SessionKey creation requires user authentication">>)

\* Bytes are numbers 0..255, hex strings are sequences of digits.
HexDigits == <<"0", "1", "2", "3", "4", "5", "6", "7",
               "8", "9", "a", "b", "c", "d", "e", "f">>

HexValue(c) == (CHOOSE k \in 1..16 : HexDigits[k] = c) - 1

\* toHex(bytes): two digits per byte.
toHex(bytes) ==
    [i \in 1..(2 * Len(bytes)) |->
        IF i % 2 = 1 THEN HexDigits[(bytes[(i + 1) \div 2] \div 16) + 1]
                     ELSE HexDigits[(bytes[i \div 2] % 16) + 1]]

\* fromHex(hex): an odd number of digits is padded with a leading zero.
fromHex(hex) ==
    LET padded == IF Len(hex) % 2 = 1 THEN <<"0">> \o hex ELSE hex
    IN  [i \in 1..(Len(padded) \div 2) |->
            16 * HexValue(padded[2 * i - 1]) + HexValue(padded[2 * i])]

\* crypto.getRandomValues(new Uint8Array(5))
NonceLen == 5

ByteValues == {0, 171}

\* The nonces drawn in the runs explored: at most one byte is not zero.
Nonces ==
    {n \in [1..NonceLen -> ByteValues] :
        Cardinality({i \in 1..NonceLen : n[i] # 0}) <= 1}

\* SealClient.encrypt({threshold, packageId, id, data}) of a client that was
\* configured with `servers` key servers: the library refuses a threshold
\* the servers cannot meet.
SealClientEncrypt(threshold, servers, id, data) ==
    IF threshold <= 0 \/ servers < threshold
        THEN Throw("UserError", <<"Invalid key servers or threshold">>)
        ELSE Ok([Sealed(id, data) EXCEPT !.threshold = threshold])

\* Mutant: the last byte of the game data is not encrypted.
encryptGame_Truncated(gameData, policyObjectId, nonce, servers) ==
    Ok(Sealed(toHex(fromHex(policyObjectId) \o nonce),
              SubSeq(gameData, 1, Len(gameData) - 1)))

\* Mutant: the id is the policy object alone, the nonce is not appended.
encryptGame_NoNonce(gameData, policyObjectId, nonce, servers) ==
    Ok(Sealed(toHex(fromHex(policyObjectId)), gameData))

\* Mutant: ciphertext is produced whatever the number of key servers.
encryptGame_AnyServers(gameData, policyObjectId, nonce, servers) ==
    Ok(Sealed(toHex(fromHex(policyObjectId) \o nonce), gameData))

\* encryptGame(gameData, policyObjectId, packageId), with the nonce that
\* getRandomValues draws, on a ColdCacheSeal whose client has `servers` key
\* servers.  The catch block rethrows as "Failed to encrypt game: ...".
encryptGame(gameData, policyObjectId, nonce, servers) ==
    LET policyObjectBytes == fromHex(policyObjectId)
        id == toHex(policyObjectBytes \o nonce)
        res == SealClientEncrypt(SealThreshold, servers, id, gameData)
    IN  IF res.ok THEN res
        ELSE Throw("Error", <<"Failed to encrypt game:">> \o res.msg)

\* SealClient.fetchKeys({ids, txBytes, sessionKey, threshold}): the session
\* must be unexpired; every reachable key server dry-runs the approval
\* transaction on the ledger and releases its share only if it passes; the
\* call succeeds once threshold shares are in.  env.denial is the error class
\* the client raises for a refused share.
fetchKeys(id, obj, caller, key, env) ==
    IF key = "expired"
        THEN Throw("ExpiredSessionKeyError", <<"Session key expired">>)
    ELSE IF env.serversUp = 0
        THEN Throw("Error", <<"network", "key servers unreachable">>)
    ELSE IF ~LedgerApproves(id, obj, caller)
        THEN Throw(env.denial, <<"User does not have access to the requested keys">>)
    ELSE IF env.serversUp < SealThreshold
        THEN Throw("Error", <<"Not enough shares", "threshold not met">>)
    ELSE Ok(env.serversUp)

\* decryptGame(encryptedData, sessionKey, moveCallConstructor)
decryptGame(bytes, key, obj, caller, env) ==
    LET inner ==
            IF bytes.kind # "sealed"
                THEN Throw("Error", <<"EncryptedObject.parse failed">>)
            ELSE LET keys == fetchKeys(bytes.id, obj, caller, key, env) IN
                 IF ~keys.ok THEN keys
                 ELSE IF ~env.cipherOk
                     THEN Throw("Error", <<"decrypt: invalid ciphertext">>)
                 ELSE Ok(bytes.data)
    IN  IF inner.ok THEN inner
        ELSE IF inner.cls = "NoAccessError"
            THEN Throw("Error", <<"You don't own the required NFT",
                                  "to access this game.">>)
        ELSE Throw("Error", <<"Failed to decrypt game:">> \o inner.msg)

(***************************************************************************)
(* lib/sealOwnership.ts: SealOwnershipVerifier                             *)
(***************************************************************************)
\* Objects an address can own besides the tokens of game_store: a coin, and
\* a token of another package whose struct is also named GameNFT.
GameStorePackage == "0x1708"

ForeignIds == {"c1", "x1"}

\* getOwnedObjects enumerates in this order.
ObjOrder == <<"c1", "n1", "n2", "n3", "x1">>

GameNFTType == [package |-> GameStorePackage, module |-> "game_store", name |-> "GameNFT"]

\* The object as the RPC node reports it (showContent, showType).
SuiObject(id) ==
    IF id \in NftIds
        THEN [objectId |-> id, exists |-> nfts[id].minted, owner |-> nfts[id].owner,
              type |-> GameNFTType, game_id |-> nfts[id].game_id,
              walrus_blob_id |-> IF nfts[id].minted
                                    THEN games[nfts[id].game_id].walrus_blob_id
                                    ELSE ""]
    ELSE IF id = "c1"
        THEN [objectId |-> id, exists |-> TRUE, owner |-> "alice",
              type |-> [package |-> "0x2", module |-> "coin", name |-> "Coin"],
              game_id |-> Null, walrus_blob_id |-> ""]
    ELSE [objectId |-> id, exists |-> TRUE, owner |-> "bob",
          type |-> [package |-> "0xfake", module |-> "fake", name |-> "GameNFT"],
          game_id |-> "gA", walrus_blob_id |-> ""]

OwnedObjects(owner) ==
    SelectSeq([i \in 1..Len(ObjOrder) |-> SuiObject(ObjOrder[i])],
              LAMBDA o : o.exists /\ o.owner = owner)

\* limit: 50 in the code; pages of PageLimit objects here.
PageLimit == 2

\* suiClient.getOwnedObjects({owner, cursor, limit}): one page.
getOwnedObjects(owner, cursor) ==
    LET all == OwnedObjects(owner)
        end == IF cursor + PageLimit < Len(all) THEN cursor + PageLimit ELSE Len(all)
    IN  [data |-> SubSeq(all, cursor + 1, end), nextCursor |-> end,
         hasNextPage |-> end < Len(all)]

\* content.type?.includes("::GameNFT")
isGameNFT(obj) == obj.type.name = "GameNFT"

\* allObjects.find(...): the first fetched object that is a GameNFT by type
\* name and whose game_id field equals the target; its objectId, or null.
FindMatchingNFT(allObjects, gameId) ==
    LET hits == {i \in 1..Len(allObjects) :
                    isGameNFT(allObjects[i]) /\ allObjects[i].game_id = gameId}
    IN  IF hits = {} THEN Null
        ELSE allObjects[CHOOSE i \in hits : \A j \in hits : i <= j].objectId

\* Ledger truth: the game_store tokens of gameId that user owns.
MatchingNfts(gameId, user) ==
    {n \in NftIds : nfts[n].minted /\ nfts[n].owner = user /\ nfts[n].game_id = gameId}

\* Mutant: the game_id comparison is dropped, any owned token matches.
OwnedNfts(user) == {n \in NftIds : nfts[n].minted /\ nfts[n].owner = user}

findUserNFTForGame_AnyToken(gameId, user) ==
    IF OwnedNfts(user) = {} THEN Null
    ELSE CHOOSE n \in OwnedNfts(user) :
            \A m \in OwnedNfts(user) : NftIndex(n) <= NftIndex(m)

\* findUserNFTForGame when every page request succeeds and the ledger does
\* not change between pages (the page loop itself is FetchPage below).
findUserNFTForGame(gameId, user) ==
    FindMatchingNFT(OwnedObjects(user), gameId)

\* ColdCacheSeal.verifyOwnership(gameId, userAddress, sessionKey, constructor):
\* Seal accepts the approval transaction built by the constructor.
SealVerifyOwnership(gameId, user, key, obj) ==
    key = "valid" /\ LedgerApproves(gameId, obj, user)

\* SealOwnershipVerifier.verifyOwnership -> hasAccess
VerifierHasAccess(gameId, user, key) ==
    LET userNFTId == findUserNFTForGame(gameId, user) IN
    IF userNFTId = Null THEN FALSE
    ELSE SealVerifyOwnership(gameId, user, key, userNFTId)

(***************************************************************************)
(* lib/gameDownload.ts: GameDownloadManager                                *)
(***************************************************************************)
\* game.gameId || game.id
GameOrNftId(game) == IF game.gameId # "" THEN game.gameId ELSE game.id

\* verifyOwnership(game): any exception, the failing createSessionKey
\* included, is caught and reported as "not the owner".
verifyOwnership(game, user, key) ==
    IF key = "none" THEN (IF createSessionKey.ok THEN TRUE ELSE FALSE)
    ELSE VerifierHasAccess(GameOrNftId(game), user, key)

\* downloadFromWalrus(blobId)
InvalidBlobId(blobId) == blobId = "" \/ blobId = "walrus_tmp"

\* Mutant: the guard on the blob id is dropped.
downloadFromWalrus_NoGuard(blobId, httpOk) ==
    IF ~httpOk
        THEN Throw("Error", <<"Failed to download from Walrus:", "404">>)
    ELSE Ok(BlobAt(blobId))

downloadFromWalrus(blobId, httpOk) ==
    IF InvalidBlobId(blobId)
        THEN Throw("Error", <<"Invalid Walrus blob ID.">>)
    ELSE IF ~httpOk
        THEN Throw("Error", <<"Failed to download from Walrus:", "404">>)
    ELSE Ok(BlobAt(blobId))

\* decryptWithSeal(encryptedData, game): the catch block rethrows only the
\* "You don't own the required NFT" error and otherwise hands back the bytes
\* it was given.
decryptWithSeal(bytes, game, user, key, env) ==
    LET res == IF key = "none" THEN createSessionKey
               ELSE decryptGame(bytes, key, GameOrNftId(game), user, env)
    IN  IF res.ok THEN Ok(res.val)
        ELSE IF Includes(res.msg, "You don't own the required NFT")
            THEN Throw("Error", <<"Access denied:", "You don't own the required NFT",
                                  "to decrypt this game.">>)
        ELSE Ok(bytes)

GameArgs == [id : {"n1", "n3"}, gameId : GameIds \cup {""}, walrusBlobId : Locators]

SessionKeys == {"none", "valid", "expired"}

\* What the key-share network and the cipher do during one decryption.
KeyEnvs == [serversUp : 0..KeyServers, cipherOk : BOOLEAN,
            denial : {"NoAccessError", "Error"}]

\* No key server contacted (yet).
NoKeyEnv == [serversUp |-> -1, cipherOk |-> TRUE, denial |-> "Error"]

Progress(stage, percent) == [stage |-> stage, progress |-> percent]

Idle == [pc |-> "idle"]

others == <<games, nfts, keyReq, transfers, up, walrus, rs, page, seal, wl, tx>>

\* new GameDownloadManager(suiClient, user, sessionKey).downloadGame(game, cb)
\* up to the first await: the "verifying" event.
downloadGame(game, user, key, calls) ==
    /\ dl' = [pc |-> "verify", game |-> game, user |-> user, key |-> key,
              calls |-> calls,
              http |-> "none", env |-> NoKeyEnv, hadToken |-> FALSE,
              bytes |-> NoBytes, result |-> NoBytes, error |-> <<>>,
              events |-> <<Progress("verifying", 10)>>,
              steps |-> <<"verifyOwnership">>, outcomes |-> <<>>]
    /\ UNCHANGED others

Reject_Silent(msg) ==
    [dl EXCEPT !.pc = "rejected", !.error = msg]

\* catch (error): report the error stage and rethrow.
Reject(msg) ==
    [dl EXCEPT !.pc = "rejected", !.error = msg,
               !.events = @ \o <<Progress("error", 0)>>]

VerifyStep_IgnoreResult ==
    /\ dl.pc = "verify"
    /\ LET held == MatchingNfts(GameOrNftId(dl.game), dl.user) # {}
           isOwner == verifyOwnership(dl.game, dl.user, dl.key) IN
       dl' = [dl EXCEPT !.pc = "fetch", !.hadToken = held,
                        !.outcomes = @ \o <<isOwner>>,
                        !.steps = @ \o <<"downloadFromWalrus">>,
                        !.events = @ \o <<Progress("downloading", 30)>>]
    /\ UNCHANGED others

\* Stage 1 completes.  hadToken records what the ledger held when it was
\* asked: whether the caller owned a token of the requested game.  steps
\* lists the stage functions invoked so far, outcomes what each returned
\* (FALSE also stands for a throw).
VerifyStep ==
    /\ dl.pc = "verify"
    /\ LET held == MatchingNfts(GameOrNftId(dl.game), dl.user) # {}
           isOwner == verifyOwnership(dl.game, dl.user, dl.key) IN
       dl' = IF isOwner
                THEN [dl EXCEPT !.pc = "fetch", !.hadToken = held,
                                !.outcomes = @ \o <<TRUE>>,
                                !.steps = @ \o <<"downloadFromWalrus">>,
                                !.events = @ \o <<Progress("downloading", 30)>>]
                ELSE [Reject(<<"Ownership verification failed">>)
                        EXCEPT !.hadToken = held, !.outcomes = @ \o <<FALSE>>]
    /\ UNCHANGED others

\* Stage 2 completes.
FetchStep ==
    /\ dl.pc = "fetch"
    /\ \E httpOk \in BOOLEAN :
        LET r == downloadFromWalrus(dl.game.walrusBlobId, httpOk)
            http == IF InvalidBlobId(dl.game.walrusBlobId) THEN "none"
                    ELSE IF httpOk THEN "ok" ELSE "fail"
        IN  dl' = IF r.ok
                    THEN [dl EXCEPT !.pc = "decrypt", !.bytes = r.val, !.http = http,
                                    !.outcomes = @ \o <<TRUE>>,
                                    !.steps = @ \o <<"decryptWithSeal">>,
                                    !.events = @ \o <<Progress("decrypting", 70)>>]
                    ELSE [Reject(r.msg) EXCEPT !.http = http,
                                               !.outcomes = @ \o <<FALSE>>]
    /\ UNCHANGED others

\* Stage 3 completes; stage 4 reports and returns.
DecryptStep ==
    /\ dl.pc = "decrypt"
    /\ \E env \in KeyEnvs :
        LET r == decryptWithSeal(dl.bytes, dl.game, dl.user, dl.key, env) IN
        dl' = IF r.ok
                 THEN [dl EXCEPT !.pc = "resolved", !.result = r.val, !.env = env,
                                 !.outcomes = @ \o <<TRUE>>,
                                 !.events = @ \o <<Progress("complete", 100)>>]
                 ELSE [Reject(r.msg) EXCEPT !.env = env,
                                            !.outcomes = @ \o <<FALSE>>]
    /\ UNCHANGED others

\* The caller drops the manager; the page is ready for the next call.
DownloadReturn ==
    /\ dl.pc \in {"resolved", "rejected"}
    /\ dl' = Idle
    /\ UNCHANGED others

DownloadStart ==
    /\ dl.pc = "idle"
    /\ \E game \in GameArgs, user \in Addresses, key \in SessionKeys :
          downloadGame(game, user, key, 1)

\* Calls made on one manager instance.
MaxCalls == 2

\* downloadGame is called again on the same manager: userAddress and
\* sessionKey are the fields the constructor set.
DownloadAgain ==
    /\ dl.pc \in {"resolved", "rejected"}
    /\ dl.calls < MaxCalls
    /\ \E game \in GameArgs : downloadGame(game, dl.user, dl.key, dl.calls + 1)

\* The session key's time to live runs out while the call is in flight.
SessionExpires ==
    /\ dl.pc \in {"verify", "fetch", "decrypt"}
    /\ dl.key = "valid"
    /\ dl' = [dl EXCEPT !.key = "expired"]
    /\ UNCHANGED others

\* A token changes hands while a call may be in flight.
TransferNft ==
    /\ \E n \in NftIds, to \in Addresses : transfer_game_nft(n, nfts[n].owner, to)
    /\ UNCHANGED <<keyReq, dl, rs, page, up, walrus, seal, wl>>

NoKeyReq == [caller |-> Null]

(***************************************************************************)
(* The ledger on its own: publishers, buyers and key requests.             *)
(***************************************************************************)
PublishGame ==
    /\ \E g \in GameIds, sender \in Addresses, price \in 0..MaxPrice :
          publish_game(g, sender, IF g = "gA" THEN "patchA" ELSE "patchB", price)
    /\ UNCHANGED <<keyReq, transfers, dl, rs, page, up, walrus, seal, wl>>

PurchaseGame ==
    /\ \E g \in GameIds, buyer \in Addresses, payment \in 0..MaxPrice :
          purchase_game(g, buyer, payment)
    /\ UNCHANGED <<keyReq, transfers, dl, rs, page, up, walrus, seal, wl>>

DeactivateGame ==
    /\ \E g \in GameIds, sender \in Addresses : deactivate_game(g, sender)
    /\ UNCHANGED <<keyReq, transfers, dl, rs, page, up, walrus, seal, wl>>

UpdateGamePrice ==
    /\ \E g \in GameIds, sender \in Addresses, new_price \in 0..MaxPrice :
          update_game_price(g, new_price, sender)
    /\ UNCHANGED <<keyReq, transfers, dl, rs, page, up, walrus, seal, wl>>

\* The asset a ciphertext's encryption id was issued for.
AssetOfId(id) == CHOOSE g \in GameIds : EncryptionId(g) = id

\* A key server evaluates the approval transaction the download's
\* moveCallConstructor builds: [id bytes, tx.object(obj)], sent by caller.
KeyRequest ==
    /\ \E caller \in Addresses, g \in GameIds, obj \in NftIds \cup GameIds :
          keyReq' = [caller |-> caller, id |-> EncryptionId(g), obj |-> obj,
                     owned |-> obj \in OwnedNfts(caller),
                     approved |-> LedgerApproves(EncryptionId(g), obj, caller)]
    /\ UNCHANGED <<games, nfts, transfers, dl, rs, page, up, walrus, seal, wl, tx>>

(***************************************************************************)
(* The ownership lookup page by page, and SecureDownloadPage's access       *)
(* check, against a ledger on which tokens change hands.                   *)
(***************************************************************************)
RsIdle == [pc |-> "idle"]

\* findUserNFTForGame(gameId, userAddress) up to the first page request.
\* t0 records the ledger's transfer count at the call.
ResolverStart ==
    /\ rs.pc = "idle"
    /\ \E gameId \in GameIds, user \in Addresses :
          rs' = [pc |-> "paging", gameId |-> gameId, user |-> user,
                 allObjects |-> <<>>, cursor |-> 0, complete |-> FALSE,
                 result |-> Null, t0 |-> transfers]
    /\ UNCHANGED <<games, nfts, keyReq, transfers, dl, up, walrus, page, seal, wl, tx>>

\* One turn of the while (hasNextPage) loop.  A failing page request lands
\* in the catch block, which returns null; after the last page the find
\* runs over everything fetched.
FetchPage ==
    /\ rs.pc = "paging"
    /\ \E ok \in BOOLEAN :
        LET response == getOwnedObjects(rs.user, rs.cursor)
            all == rs.allObjects \o response.data
        IN  rs' = IF ~ok
                     THEN [rs EXCEPT !.pc = "done", !.result = Null]
                  ELSE IF response.hasNextPage
                     THEN [rs EXCEPT !.allObjects = all,
                                     !.cursor = response.nextCursor]
                  ELSE [rs EXCEPT !.pc = "done", !.allObjects = all,
                                  !.cursor = response.nextCursor,
                                  !.complete = TRUE,
                                  !.result = FindMatchingNFT(all, rs.gameId)]
    /\ UNCHANGED <<games, nfts, keyReq, transfers, dl, up, walrus, page, seal, wl, tx>>

ResolverReturn ==
    /\ rs.pc = "done"
    /\ rs' = RsIdle
    /\ UNCHANGED <<games, nfts, keyReq, transfers, dl, up, walrus, page, seal, wl, tx>>

\* SecureDownloadPage state before the access check.
PageInit == [accessChecked |-> FALSE, accessGranted |-> FALSE, gameData |-> Null,
             gameId |-> Null, user |-> Null, t0 |-> 0]

NftContractType == [package |-> "0x4192", module |-> "nft", name |-> "GameNFT"]

\* useSuiClientQuery("getOwnedObjects", {owner, filter: {StructType}}): the
\* first page of the owner's objects of that type.
OwnedOfType(owner, type) ==
    LET typed == SelectSeq(OwnedObjects(owner), LAMBDA o : o.type = type)
    IN  SubSeq(typed, 1, IF Len(typed) < PageLimit THEN Len(typed) ELSE PageLimit)

\* The ids a /download/:gameId link can carry.
RequestIds == GameIds \cup {"n3", "patchB"}

\* verifyAccess: the first listed token whose id, gameId or walrusBlobId
\* equals the route parameter grants access.
verifyAccess(gameId, user) ==
    LET list == OwnedOfType(user, GameNFTType) \o OwnedOfType(user, NftContractType)
        hits == {i \in 1..Len(list) :
                    \/ list[i].objectId = gameId
                    \/ list[i].game_id = gameId
                    \/ list[i].walrus_blob_id = gameId}
    IN  IF hits = {}
            THEN [accessChecked |-> TRUE, accessGranted |-> FALSE, gameData |-> Null]
        ELSE [accessChecked |-> TRUE, accessGranted |-> TRUE,
              gameData |-> list[CHOOSE i \in hits : \A j \in hits : i <= j].objectId]

VerifyAccess ==
    /\ ~page.accessChecked
    /\ \E gameId \in RequestIds, user \in Addresses :
          LET v == verifyAccess(gameId, user) IN
          page' = [accessChecked |-> v.accessChecked,
                   accessGranted |-> v.accessGranted, gameData |-> v.gameData,
                   gameId |-> gameId, user |-> user, t0 |-> transfers]
    /\ UNCHANGED <<games, nfts, keyReq, transfers, dl, up, walrus, rs, seal, wl, tx>>

\* The wallet switches to another account while the page is mounted.  The
\* effect runs again (currentAccount is a dependency) and returns at its
\* first line because accessChecked is true: no state is set.
AccountChange ==
    /\ page.accessChecked
    /\ \E user \in Addresses \ {page.user} : page' = [page EXCEPT !.user = user]
    /\ UNCHANGED <<games, nfts, keyReq, transfers, dl, up, walrus, rs, seal, wl, tx>>

\* The router moves the mounted page to another /download/:gameId.  The
\* effect runs again and returns at its first line likewise.
RouteChange ==
    /\ page.accessChecked
    /\ \E gameId \in RequestIds \ {page.gameId} :
          page' = [page EXCEPT !.gameId = gameId]
    /\ UNCHANGED <<games, nfts, keyReq, transfers, dl, up, walrus, rs, seal, wl, tx>>

\* The page is left; a later visit mounts it with fresh state.
PageLeave ==
    /\ page.accessChecked
    /\ page' = PageInit
    /\ UNCHANGED <<games, nfts, keyReq, transfers, dl, up, walrus, rs, seal, wl, tx>>

(***************************************************************************)
(* ColdCacheSeal on its own: encryptGame calls followed by decryptGame of   *)
(* what the last one produced.                                             *)
(***************************************************************************)
\* Game file contents.
Plaintexts == {<<>>, <<0>>, <<171, 0>>}

\* Policy objects (hex object ids) games are encrypted under.
PolicyObjectIds == {<<"0", "a">>, <<"0", "a", "0", "0">>}

\* encryptGame calls per run.
MaxEncrypts == 2

\* No decryptGame call made (yet).
NotDecrypted == [ok |-> FALSE, cls |-> "none", msg |-> <<>>]

\* No encryptGame call made (yet).
NotEncrypted == [ok |-> FALSE, cls |-> "none", msg |-> <<>>]

SealInit == [issued |-> <<>>, gameData |-> <<>>, encrypted |-> NoBytes,
             decrypted |-> NotDecrypted, keysGranted |-> FALSE,
             servers |-> 0, threshold |-> 0, encryptResult |-> NotEncrypted]

\* new ColdCacheSeal(suiClient, config).encryptGame(...): servers is the
\* number of key servers allowlisted for config.network, threshold the
\* one the call asked SealClient.encrypt for.
EncryptGame ==
    /\ Len(seal.issued) < MaxEncrypts
    /\ \E gameData \in Plaintexts, policyObjectId \in PolicyObjectIds,
          nonce \in Nonces, servers \in 0..KeyServers :
          LET res == encryptGame(gameData, policyObjectId, nonce, servers) IN
          seal' = IF res.ok
                     THEN [issued |-> Append(seal.issued,
                                        [policyObjectId |-> policyObjectId,
                                         nonce |-> nonce, id |-> res.val.id]),
                           gameData |-> gameData, encrypted |-> res.val,
                           decrypted |-> NotDecrypted, keysGranted |-> FALSE,
                           servers |-> servers, threshold |-> SealThreshold,
                           encryptResult |-> Ok("encryptedBytes")]
                     ELSE [issued |-> seal.issued,
                           gameData |-> gameData, encrypted |-> NoBytes,
                           decrypted |-> NotDecrypted, keysGranted |-> FALSE,
                           servers |-> servers, threshold |-> SealThreshold,
                           encryptResult |-> res]
    /\ UNCHANGED <<games, nfts, keyReq, transfers, dl, up, walrus, rs, page, wl, tx>>

\* decryptGame(encryptedData, sessionKey, moveCallConstructor) where the
\* constructor passes tx.object(obj).  keysGranted records whether the
\* ledger approved and a threshold of key servers answered an unexpired
\* session.
DecryptGame ==
    /\ seal.encrypted # NoBytes
    /\ seal.decrypted = NotDecrypted
    /\ \E caller \in Addresses, obj \in NftIds, key \in {"valid", "expired"},
          env \in KeyEnvs :
          seal' = [seal EXCEPT
                     !.decrypted = decryptGame(seal.encrypted, key, obj, caller, env),
                     !.keysGranted =
                         fetchKeys(seal.encrypted.id, obj, caller, key, env).ok]
    /\ UNCHANGED <<games, nfts, keyReq, transfers, dl, up, walrus, rs, page, wl, tx>>

(***************************************************************************)
(* Ledger: nft::nft and patterns::whitelist                                *)
(***************************************************************************)
WlNftIds == {"w1", "w2"}

\* Length of the owners history explored.
MaxOwners == 3

NoWlNft == [minted |-> FALSE, owner |-> Null, owners |-> <<>>]

NoWlReq == [caller |-> Null]

WlInit == [nft |-> [n \in WlNftIds |-> NoWlNft], req |-> NoWlReq]

\* mint_nft: owners starts as [sender]; the caller's transaction then sends
\* the returned NFT to an address.
mint_nft(n, sender, recipient) ==
    [minted |-> TRUE, owner |-> recipient, owners |-> <<sender>>]

\* transfer_nft(nft, to): push `to` to the owners history and transfer.
transfer_nft(nft, to) ==
    [nft EXCEPT !.owner = to, !.owners = Append(@, to)]

\* whitelist::check_policy(caller, nft, wl): caller occurs in nft.owners.
check_policy(caller, nft) ==
    \E i \in 1..Len(nft.owners) : nft.owners[i] = caller

\* Mutant: the policy alone decides, whoever owns the object.
WhitelistApproves_PolicyOnly(caller, n) ==
    wl.nft[n].minted /\ check_policy(caller, wl.nft[n])

\* What a key server's dry run of whitelist::seal_approve(nft, wl) yields
\* for sender caller: the NFT argument must be an object the sender owns,
\* and the entry function must not abort.
WhitelistApproves(caller, n) ==
    /\ wl.nft[n].minted
    /\ wl.nft[n].owner = caller
    /\ check_policy(caller, wl.nft[n])

MintNft ==
    /\ \E n \in WlNftIds, sender \in Addresses, recipient \in Addresses :
          /\ ~wl.nft[n].minted
          /\ n = "w1" \/ wl.nft["w1"].minted
          /\ wl' = [wl EXCEPT !.nft[n] = mint_nft(n, sender, recipient)]
    /\ UNCHANGED <<games, nfts, keyReq, transfers, dl, up, walrus, rs, page, seal, tx>>

\* The owner passes the NFT to transfer_nft.
TransferWlNft ==
    /\ \E n \in WlNftIds, to \in Addresses :
          /\ wl.nft[n].minted
          /\ to # wl.nft[n].owner
          /\ Len(wl.nft[n].owners) < MaxOwners
          /\ wl' = [wl EXCEPT !.nft[n] = transfer_nft(@, to)]
    /\ UNCHANGED <<games, nfts, keyReq, transfers, dl, up, walrus, rs, page, seal, tx>>

\* A key request: the key servers evaluate seal_approve for caller.
SealApprove ==
    /\ \E caller \in Addresses, n \in WlNftIds :
          /\ wl.nft[n].minted
          /\ wl' = [wl EXCEPT !.req =
                      [caller |-> caller, nft |-> n,
                       owner |-> wl.nft[n].owner,
                       policy |-> check_policy(caller, wl.nft[n]),
                       approved |-> WhitelistApproves(caller, n)]]
    /\ UNCHANGED <<games, nfts, keyReq, transfers, dl, up, walrus, rs, page, seal, tx>>

WhitelistNext ==
    \/ MintNft
    \/ TransferWlNft
    \/ SealApprove

UpIdle == [pc |-> "idle"]

WalrusEmpty == [log |-> <<>>, certified |-> {}, flows |-> 0]

\* The ledger after alice published gA and gB and bob bought gB.
Init ==
    /\ games = [g \in GameIds |->
                  [published |-> TRUE, id |-> g, publisher |-> "alice",
                   walrus_blob_id |-> IF g = "gA" THEN "patchA" ELSE "patchB",
                   price |-> 1, is_active |-> TRUE,
                   total_sales |-> IF g = "gB" THEN 1 ELSE 0]]
    /\ nfts = [n \in NftIds |->
                  [minted |-> TRUE,
                   game_id |-> IF n = "n1" THEN "gA" ELSE "gB",
                   owner |-> IF n = "n3" THEN "bob" ELSE "alice",
                   publisher |-> "alice",
                   is_publisher_nft |-> n # "n3"]]
    /\ keyReq = NoKeyReq
    /\ transfers = 0
    /\ dl = Idle
    /\ up = UpIdle
    /\ walrus = WalrusEmpty
    /\ rs = RsIdle
    /\ page = PageInit
    /\ seal = SealInit
    /\ wl = WlInit
    /\ tx = NoTx

Next ==
    \/ DownloadStart
    \/ VerifyStep
    \/ FetchStep
    \/ DecryptStep
    \/ DownloadReturn
    \/ DownloadAgain
    \/ SessionExpires
    \/ TransferNft

Spec == Init /\ [][Next]_vars

LedgerInit ==
    /\ games = [g \in GameIds |-> NoGame]
    /\ nfts = [n \in NftIds |-> NoNft]
    /\ keyReq = NoKeyReq
    /\ transfers = 0
    /\ dl = Idle
    /\ up = UpIdle
    /\ walrus = WalrusEmpty
    /\ rs = RsIdle
    /\ page = PageInit
    /\ seal = SealInit
    /\ wl = WlInit
    /\ tx = NoTx

LedgerNext ==
    \/ PublishGame
    \/ PurchaseGame
    \/ TransferNft
    \/ KeyRequest

LedgerSpec == LedgerInit /\ [][LedgerNext]_vars

\* Every state-changing entry point of game_store.
StoreNext ==
    \/ PublishGame
    \/ PurchaseGame
    \/ TransferNft
    \/ DeactivateGame
    \/ UpdateGamePrice

StoreSpec == LedgerInit /\ [][StoreNext]_vars

ResolverNext ==
    \/ ResolverStart
    \/ FetchPage
    \/ ResolverReturn
    \/ VerifyAccess
    \/ PageLeave
    \/ TransferNft

ResolverSpec == Init /\ [][ResolverNext]_vars

\* SecureDownloadPage while the wallet, the route and the ledger change.
PageNext ==
    \/ VerifyAccess
    \/ AccountChange
    \/ RouteChange
    \/ PageLeave
    \/ TransferNft

PageSpec == Init /\ [][PageNext]_vars

SealNext ==
    \/ EncryptGame
    \/ DecryptGame

SealSpec == Init /\ [][SealNext]_vars

WhitelistSpec == LedgerInit /\ [][WhitelistNext]_vars

(***************************************************************************)
(* components/Layout.tsx: uploadToWalrus and handlePublishGame             *)
(***************************************************************************)
maxRetries == 3

NumStr == <<"1", "2", "3", "4", "5", "6">>

\* Quilt patch ids the storage network hands out, one per write flow.
PatchNames == <<"p1", "p2", "p3", "p4", "p5", "p6", "p7", "p8", "p9", "p10">>

PatchOf(flow) == PatchNames[flow]

\* Reservation digests as they would print in a message.
DigestNames == <<"d1", "d2", "d3", "d4", "d5", "d6", "d7", "d8", "d9", "d10">>

\* What the ledger or the wallet answers when it refuses a transaction.
LedgerRejections ==
    { <<"InsufficientGas">>,
      <<"GasBalanceTooLow gas_balance:", "400">>,
      <<"User rejected the request">> }

\* What the storage nodes answer when a write or an encode fails.
StorageFailures ==
    { <<"Failed to store slivers:", "timeout">>,
      <<"NotEnoughBlobConfirmationsError">> }

EncodeFailures == { <<"wasm: encode failed">> }

isRetryableError(errorMessage) ==
    \/ Includes(errorMessage, "400")
    \/ Includes(errorMessage, "Bad Request")
    \/ Includes(errorMessage, "network")
    \/ Includes(errorMessage, "timeout")

Identifier(file) == IF file = "cover" THEN "title_cover.png" ELSE "title.zip"

\* throw new Error(`Failed to upload ${identifier} after ${retryCount + 1}
\* attempts: ${errorMessage}`)
UploadError(file, retryCount, errorMessage) ==
    <<"Failed to upload", Identifier(file), "after", NumStr[retryCount + 1],
      "attempts:">> \o errorMessage

\* handlePublishGame's catch: the message shown to the user.
userFriendlyMessage(errorMessage) ==
    IF Includes(errorMessage, "400") \/ Includes(errorMessage, "Bad Request")
        THEN <<"Storage nodes are having issues.">>
    ELSE IF Includes(errorMessage, "network") \/ Includes(errorMessage, "timeout")
        THEN <<"Network connection issue.">>
    ELSE IF Includes(errorMessage, "Wallet not connected")
        THEN <<"Please connect your wallet and try again.">>
    ELSE IF Includes(errorMessage, "rejected")
        THEN <<"Transaction was rejected.">>
    ELSE errorMessage

UploadFailed(errorMessage) ==
    [step |-> "Upload failed", progress |-> 0, isUploading |-> FALSE,
     error |-> userFriendlyMessage(errorMessage),
     details |-> <<"Technical details:">> \o errorMessage]

StepProgress_NotUploading(step, percent) ==
    [step |-> step, progress |-> percent, isUploading |-> FALSE,
     error |-> <<>>, details |-> <<>>]

StepProgress(step, percent) ==
    [step |-> step, progress |-> percent, isUploading |-> TRUE,
     error |-> <<>>, details |-> <<>>]

\* A log entry of the storage flow: the stage that ran, for which file, in
\* which write flow, with which reservation digest (0: none) and outcome.
Op(op, ok) ==
    [op |-> op, file |-> up.file, flow |-> up.flow, digest |-> up.digest, ok |-> ok]

Logged(entry) == [walrus EXCEPT !.log = Append(@, entry)]

\* The catch block of uploadToWalrus, followed (when it rethrows) by the
\* catch block of handlePublishGame.  The flow and the register result are
\* locals of the failed call: they are gone once it has thrown or recursed.
Retry == [up EXCEPT !.pc = "encode", !.retryCount = @ + 1, !.flow = 0, !.digest = 0]

Rethrow(stage, errorMessage) ==
    [up EXCEPT !.pc = "failed", !.failedStage = stage, !.flow = 0, !.digest = 0,
               !.thrown = UploadError(up.file, up.retryCount, errorMessage),
               !.progress = UploadFailed(
                   UploadError(up.file, up.retryCount, errorMessage))]

\* Mutant: the retry test is off by one.
Catch_OffByOne(stage, errorMessage) ==
    IF isRetryableError(errorMessage) /\ up.retryCount <= maxRetries
        THEN Retry
        ELSE Rethrow(stage, errorMessage)

Catch(stage, errorMessage) ==
    IF isRetryableError(errorMessage) /\ up.retryCount < maxRetries
        THEN Retry
        ELSE Rethrow(stage, errorMessage)

\* handlePublishGame up to the first uploadToWalrus call.
handlePublishGame(connected, hasGameFile, hasCover) ==
    /\ up.pc = "idle"
    /\ up' = IF ~connected
                THEN [pc |-> "rejected",
                      progress |-> [step |-> "Error: Please connect your wallet",
                                    progress |-> 0, isUploading |-> FALSE,
                                    error |-> <<"Wallet not connected">>,
                                    details |-> <<>>]]
             ELSE IF ~hasGameFile
                THEN [pc |-> "rejected",
                      progress |-> [step |-> "Error: Please select a game file",
                                    progress |-> 0, isUploading |-> FALSE,
                                    error |-> <<"Game file is required">>,
                                    details |-> <<>>]]
             ELSE [pc |-> "encode", file |-> "game", hasCover |-> hasCover,
                   retryCount |-> 0, flow |-> 0, digest |-> 0,
                   gameWalrusId |-> "", coverImageWalrusId |-> "",
                   failedStage |-> "none", thrown |-> <<>>,
                   progress |-> StepProgress("Step 1/4", 25)]
    /\ UNCHANGED <<games, nfts, keyReq, transfers, dl, rs, page, walrus, seal, wl, tx>>

PublishStart ==
    \E connected \in BOOLEAN, hasGameFile \in BOOLEAN, hasCover \in BOOLEAN :
        handlePublishGame(connected, hasGameFile, hasCover)

\* WalrusFile.from({contents: new Uint8Array(await file.arrayBuffer())}):
\* the bytes of the file the publisher selected, as they are.
WalrusFileContents(file) ==
    IF file = "game" THEN Plaintext("game") ELSE Raw("cover-image")

\* walrusClient.writeFilesFlow + flow.encode(), after the file-type check.
Encode ==
    /\ up.pc = "encode"
    /\ \/ \E coverIsImage \in BOOLEAN :
            /\ up.file = "cover"
            /\ ~coverIsImage
            /\ up' = Catch("validate", <<"Cover image must be an image file.">>)
            /\ UNCHANGED walrus
       \/ \E ok \in BOOLEAN, msg \in EncodeFailures :
            LET n == walrus.flows + 1
                entry == [op |-> "encode", file |-> up.file, flow |-> n,
                          digest |-> 0, ok |-> ok,
                          contents |-> WalrusFileContents(up.file)]
            IN  /\ walrus' = [walrus EXCEPT !.flows = n, !.log = Append(@, entry)]
                /\ up' = IF ok THEN [up EXCEPT !.pc = "register", !.flow = n]
                               ELSE [Catch("encode", msg) EXCEPT !.flow = 0]
    /\ UNCHANGED <<games, nfts, keyReq, transfers, dl, rs, page, seal, wl, tx>>

\* flow.register + signAndExecute: the reservation digest of a flow is fresh.
Register ==
    /\ up.pc = "register"
    /\ \/ /\ up' = [up EXCEPT !.pc = "upload", !.digest = up.flow]
          /\ walrus' = Logged([Op("register", TRUE) EXCEPT !.digest = up.flow])
       \/ \E msg \in LedgerRejections :
          /\ up' = Catch("register", msg)
          /\ walrus' = Logged(Op("register", FALSE))
    /\ UNCHANGED <<games, nfts, keyReq, transfers, dl, rs, page, seal, wl, tx>>

\* Mutant: the digest of the register result is not passed on.
flowUpload_NoDigest(ok) == [Op("upload", ok) EXCEPT !.digest = 0]

\* flow.upload({digest: registerResult.digest})
flowUpload(ok) == Op("upload", ok)

Upload ==
    /\ up.pc = "upload"
    /\ \/ /\ up' = [up EXCEPT !.pc = "certify"]
          /\ walrus' = Logged(flowUpload(TRUE))
       \/ \E msg \in StorageFailures :
          /\ up' = Catch("upload", msg)
          /\ walrus' = Logged(flowUpload(FALSE))
    /\ UNCHANGED <<games, nfts, keyReq, transfers, dl, rs, page, seal, wl, tx>>

\* Mutant: onError of the certify transaction resolves instead of rejecting.
AfterCertify_IgnoreError(ok, msg) == [up EXCEPT !.pc = "list"]

\* What follows the certify transaction's onSuccess / onError.
AfterCertify(ok, msg) ==
    IF ok THEN [up EXCEPT !.pc = "list"] ELSE Catch("certify", msg)

\* flow.certify + signAndExecute
Certify ==
    /\ up.pc = "certify"
    /\ \/ /\ up' = AfterCertify(TRUE, <<>>)
          /\ walrus' = [Logged(Op("certify", TRUE))
                            EXCEPT !.certified = @ \cup {PatchOf(up.flow)}]
       \/ \E msg \in LedgerRejections :
          /\ up' = AfterCertify(FALSE, msg)
          /\ walrus' = Logged(Op("certify", FALSE))
    /\ UNCHANGED <<games, nfts, keyReq, transfers, dl, rs, page, seal, wl, tx>>

\* uploadToWalrus returned {blobId, patchId}: what handlePublishGame does next.
Uploaded(patchId) ==
    IF up.file = "game" /\ up.hasCover
        THEN [up EXCEPT !.pc = "encode", !.file = "cover", !.retryCount = 0,
                        !.flow = 0, !.digest = 0, !.gameWalrusId = patchId,
                        !.progress = StepProgress("Step 2/4", 50)]
    ELSE IF up.file = "game"
        THEN [up EXCEPT !.pc = "publish", !.gameWalrusId = patchId,
                        !.progress = StepProgress("Step 3/4", 75)]
    ELSE [up EXCEPT !.pc = "publish", !.coverImageWalrusId = patchId,
                    !.progress = StepProgress("Step 3/4", 75)]

\* flow.listFiles(), the return of uploadToWalrus, and handlePublishGame up to
\* the submission of the publish_game_entry transaction.
ListFiles ==
    /\ up.pc = "list"
    /\ \/ up' = Uploaded(PatchOf(up.flow))
       \/ up' = Catch("list", <<"No files were uploaded successfully">>)
    /\ UNCHANGED <<games, nfts, keyReq, transfers, dl, rs, page, walrus, seal, wl, tx>>

\* The publish transaction executes on the ledger: onSuccess.
PublishTxSuccess ==
    /\ up.pc = "publish"
    /\ \E g \in GameIds, price \in 0..MaxPrice :
          publish_game(g, "alice", up.gameWalrusId, price)
    /\ up' = [up EXCEPT !.pc = "done",
                        !.progress = [step |-> "Step 4/4", progress |-> 100,
                                      isUploading |-> FALSE, error |-> <<>>,
                                      details |-> <<>>]]
    /\ UNCHANGED <<keyReq, transfers, dl, rs, page, walrus, seal, wl>>

\* The publish transaction is refused: onError.
PublishTxError ==
    /\ up.pc = "publish"
    /\ \E msg \in LedgerRejections :
         up' = [up EXCEPT !.pc = "unpublished",
                          !.progress = [step |-> "Failed to register game on blockchain",
                                        progress |-> 75, isUploading |-> FALSE,
                                        error |-> msg, details |-> <<>>]]
    /\ UNCHANGED <<games, nfts, keyReq, transfers, dl, rs, page, walrus, seal, wl, tx>>

UploadNext ==
    \/ PublishStart
    \/ Encode
    \/ Register
    \/ Upload
    \/ Certify
    \/ ListFiles
    \/ PublishTxSuccess
    \/ PublishTxError

UploadSpec == LedgerInit /\ [][UploadNext]_vars

\* The uploadProgress state of the publish form: useState's initial value
\* until the handler first sets it.
uploadProgress ==
    IF up.pc = "idle"
        THEN [step |-> "Ready to upload", progress |-> 0, isUploading |-> FALSE,
              error |-> <<>>, details |-> <<>>]
        ELSE up.progress

\* isPending of useSignAndExecuteTransaction: from signAndExecute(...) until
\* onSuccess or onError.
isTransactionPending == up.pc = "publish"

\* The disabled attribute of the publish button, the only caller of
\* handlePublishGame.
publishDisabled(isFormValid) ==
    ~isFormValid \/ uploadProgress.isUploading \/ isTransactionPending

\* Every pending await settles: the wallet, the ledger and the storage nodes
\* answer each request.
UploadFairSpec == UploadSpec /\ WF_vars(UploadNext)

(***************************************************************************)
(* Claims                                                                  *)
(***************************************************************************)

\* C1: downloadGame fails closed: it never resolves with (and never reports
\* "complete" for) the bytes it fetched from storage.
C1_FailClosed ==
    (dl.pc = "resolved" \/ (dl.pc # "idle" /\ Includes(dl.events, Progress("complete", 100))))
        => dl.result # dl.bytes

\* C2: a caller who owns no token of the requested game is refused with the
\* ownership error and gets no data, whatever the stored bytes are.
C2_AccessDenied ==
    (dl.pc \in {"fetch", "decrypt", "resolved", "rejected"} /\ ~dl.hadToken)
        => /\ dl.pc = "rejected"
           /\ dl.error = <<"Ownership verification failed">>
           /\ dl.result = NoBytes
           /\ dl.bytes = NoBytes

C2_Witness ==
    /\ dl.pc = "rejected"
    /\ ~dl.hadToken
    /\ dl.key = "valid"
    /\ dl.game.gameId = "gA"
    /\ dl.user = "bob"
    /\ dl.game.walrusBlobId = "patchA"
    /\ \E n \in NftIds : nfts[n].owner = "bob"

\* C3: the key servers approve a request for an encryption id only when the
\* caller presents a token of the asset that id belongs to.
C3_ApprovalBoundToAsset ==
    (keyReq.caller # Null /\ keyReq.approved)
        => /\ keyReq.obj \in NftIds
           /\ nfts[keyReq.obj].game_id = AssetOfId(keyReq.id)

\* C4: a holder of the game's token, with a valid locator, a successful
\* storage read and enough key servers, ends with the original plaintext,
\* also when no session key was supplied.
C4_HolderGetsPlaintext ==
    (/\ dl.pc \in {"resolved", "rejected"}
     /\ dl.hadToken
     /\ dl.key \in {"none", "valid"}
     /\ dl.game.gameId \in GameIds
     /\ dl.game.walrusBlobId = games[dl.game.gameId].walrus_blob_id
     /\ dl.http # "fail"
     /\ dl.env.serversUp = -1 \/ dl.env.serversUp >= SealThreshold
     /\ dl.env.cipherOk)
        => /\ dl.pc = "resolved"
           /\ dl.result = Plaintext(dl.game.gameId)

Log == walrus.log

LogIdx == 1..Len(Log)

\* C5: once a file's register transaction succeeded with digest D and the
\* transfer of that flow failed, no further register transaction is made for
\* the file and every later transfer uses D.
C5_UploadIdempotent ==
    \A i \in LogIdx, k \in LogIdx, j \in LogIdx :
        (/\ i < k /\ k < j
         /\ Log[i].op = "register" /\ Log[i].ok
         /\ Log[k].op = "upload" /\ ~Log[k].ok /\ Log[k].flow = Log[i].flow
         /\ Log[j].file = Log[i].file)
            => /\ Log[j].op # "register"
               /\ Log[j].op = "upload" => Log[j].digest = Log[i].digest

\* C6: within every attempt the storage operations run in the order encode,
\* register, upload, certify, each only after the previous one of the same
\* flow succeeded; the upload uses the digest of that flow's register; and a
\* patch is certified only by a flow that ran all four.
FollowsOk(i, op) ==
    /\ i > 1
    /\ Log[i - 1].op = op
    /\ Log[i - 1].ok
    /\ Log[i - 1].flow = Log[i].flow
    /\ Log[i - 1].file = Log[i].file

C6_StageOrder ==
    /\ \A i \in LogIdx :
        /\ Log[i].op = "encode" => \A j \in 1..(i - 1) : Log[j].flow # Log[i].flow
        /\ Log[i].op = "register" => FollowsOk(i, "encode")
        /\ Log[i].op = "upload" =>
              /\ FollowsOk(i, "register")
              /\ Log[i].digest # 0
              /\ Log[i].digest = Log[i - 1].digest
        /\ Log[i].op = "certify" => FollowsOk(i, "upload")
    /\ \A n \in 1..walrus.flows :
        PatchOf(n) \in walrus.certified =>
            \A op \in {"encode", "register", "upload", "certify"} :
                \E i \in LogIdx : Log[i].flow = n /\ Log[i].op = op /\ Log[i].ok

C6_Witness ==
    /\ walrus.certified # {}
    /\ \E i \in LogIdx : Log[i].op = "upload" /\ ~Log[i].ok
    /\ \E i \in LogIdx : Log[i].op = "certify" /\ Log[i].ok /\ Log[i].flow > 1

\* C7: the publish transaction is submitted only after the game file (and the
\* cover, when there is one) was certified; every Game on the ledger carries
\* a certified locator; a failed upload leaves no Game behind.
C7_PublishOnlyCertified ==
    /\ up.pc \in {"publish", "done", "unpublished"} =>
          /\ up.gameWalrusId \in walrus.certified
          /\ up.hasCover => up.coverImageWalrusId \in walrus.certified
    /\ \A g \in GameIds :
          games[g].published => games[g].walrus_blob_id \in walrus.certified
    /\ up.pc \in {"failed", "rejected", "unpublished"} =>
          \A g \in GameIds : ~games[g].published

C7_Witness ==
    /\ up.pc = "done"
    /\ \E g \in GameIds : games[g].published /\ games[g].walrus_blob_id = up.gameWalrusId
    /\ \E i \in LogIdx : Log[i].op = "certify" /\ ~Log[i].ok

\* C8: a register or certify transaction refused by the ledger or the signer
\* ends the upload at once: the refusal is the last storage operation and
\* the call has thrown.
C8_RejectionsNotRetried ==
    \A i \in LogIdx :
        (Log[i].op \in {"register", "certify"} /\ ~Log[i].ok)
            => /\ i = Len(Log)
               /\ up.pc = "failed"

\* Attempts made for a file: the uploadToWalrus invocations that got as far
\* as starting a write flow.
Attempts(file) ==
    Cardinality({i \in LogIdx : Log[i].op = "encode" /\ Log[i].file = file})

UploadFiles == {"game", "cover"}

Settled == up.pc \in {"rejected", "failed", "publish", "done", "unpublished"}

\* C9 (as claimed): at most 3 attempts per file.
C9_AtMostThreeAttempts ==
    \A file \in UploadFiles : Attempts(file) <= 3

\* C9 (amended): every upload settles, after at most 4 attempts per file
\* (the first one and at most 3 retries).
C9_BoundedRetry ==
    /\ [](\A file \in UploadFiles : Attempts(file) <= 4)
    /\ [](up.pc \notin {"idle", "rejected"} => up.retryCount <= 3)
    /\ <>Settled

C9_Witness ==
    /\ Attempts("game") = 4
    /\ up.pc = "failed"
    /\ up.failedStage = "upload"

\* The digest of the last successful register of the file being uploaded.
LastRegister ==
    {i \in LogIdx : /\ Log[i].op = "register" /\ Log[i].ok /\ Log[i].file = up.file
                    /\ \A j \in LogIdx : j > i => Log[j].op # "encode"}

\* C10: a failure after the register succeeded identifies the failed stage
\* and retains the reservation digest of that attempt.
C10_ResumableFailure ==
    (up.pc = "failed" /\ up.failedStage \in {"upload", "certify", "list"})
        => /\ Includes(up.thrown, up.failedStage)
           /\ \A i \in LastRegister :
                \/ up.digest = Log[i].digest
                \/ Includes(up.thrown, DigestNames[Log[i].digest])
                \/ Includes(up.progress.details, DigestNames[Log[i].digest])

(***************************************************************************)
(* C11  No false negatives in the ownership lookup: findUserNFTForGame     *)
(* returns null only after every page of the holder's objects was fetched, *)
(* and when the holder owns a token of the target game (the ledger         *)
(* unchanged during the call) it returns a token id.                       *)
(***************************************************************************)
C11_NoFalseNegative ==
    rs.pc = "done" =>
        /\ rs.result = Null => rs.complete
        /\ (transfers = rs.t0 /\ MatchingNfts(rs.gameId, rs.user) # {})
                => rs.result # Null

(***************************************************************************)
(* C12  No false positives: the lookup returns a token, and the page       *)
(* grants access, only if the holder owns a game_store token whose game_id *)
(* field equals the requested id (the ledger unchanged since the check).   *)
(***************************************************************************)
C12_NoFalsePositive ==
    /\ (rs.pc = "done" /\ rs.result # Null /\ transfers = rs.t0)
            => rs.result \in MatchingNfts(rs.gameId, rs.user)
    /\ (page.accessGranted /\ transfers = page.t0)
            => MatchingNfts(page.gameId, page.user) # {}

(***************************************************************************)
(* C13  Threshold sensitivity: a download by a holder of the game's token  *)
(* with an unexpired session and a sealed blob resolves with the plaintext *)
(* when at least SealThreshold key servers answer, and rejects with a      *)
(* threshold-not-met error when fewer (but at least one) do.               *)
(***************************************************************************)
C13_ThresholdSensitivity ==
    (/\ dl.pc \in {"resolved", "rejected"}
     /\ dl.hadToken
     /\ MatchingNfts(GameOrNftId(dl.game), dl.user) # {}
     /\ dl.key = "valid"
     /\ dl.bytes.kind = "sealed"
     /\ dl.env.serversUp >= 1
     /\ dl.env.cipherOk)
        => IF dl.env.serversUp >= SealThreshold
              THEN dl.pc = "resolved" /\ dl.result = dl.bytes.data
              ELSE dl.pc = "rejected" /\ Includes(dl.error, "threshold not met")

(***************************************************************************)
(* C14  Expired sessions fail closed: a call whose session key is expired  *)
(* when decryption is attempted never resolves.                            *)
(***************************************************************************)
C14_ExpiredFailsClosed ==
    dl.pc = "resolved" => dl.key # "expired"

(***************************************************************************)
(* C15  Secret material is discarded: once downloadGame has resolved or    *)
(* rejected the manager holds no session key, and a later call on the      *)
(* manager does not run with the key of an earlier one.                    *)
(***************************************************************************)
C15_SecretDiscarded ==
    /\ dl.pc \in {"resolved", "rejected"} => dl.key = "none"
    /\ (dl.pc # "idle" /\ dl.calls > 1) => dl.key = "none"

C20_PolicyUnique ==
    \A i, j \in 1..Len(seal.issued) :
        (i # j /\ seal.issued[i].policyObjectId = seal.issued[j].policyObjectId)
            => seal.issued[i].id # seal.issued[j].id

(***************************************************************************)
(* C20 (amended)  The id is the hex of the policy object's bytes followed  *)
(* by the NonceLen nonce bytes, so two calls with the same policy object   *)
(* produce the same id exactly when they draw the same nonce.              *)
(***************************************************************************)
C20_IdDerivation ==
    \A i, j \in 1..Len(seal.issued) :
        /\ Len(fromHex(seal.issued[i].id)) =
              Len(fromHex(seal.issued[i].policyObjectId)) + NonceLen
        /\ seal.issued[i].policyObjectId = seal.issued[j].policyObjectId
              => (seal.issued[i].id = seal.issued[j].id
                    <=> seal.issued[i].nonce = seal.issued[j].nonce)

C20_Witness ==
    /\ Len(seal.issued) = 2
    /\ seal.issued[1].policyObjectId = seal.issued[2].policyObjectId
    /\ seal.issued[1].nonce # seal.issued[2].nonce
    /\ seal.issued[1].id # seal.issued[2].id

\* The bytes a write flow was created with.
FlowContents(flow) ==
    Log[CHOOSE i \in LogIdx : Log[i].op = "encode" /\ Log[i].flow = flow].contents

(***************************************************************************)
(* C17  Encrypt before commit: every game file handed to the storage flow  *)
(* (encode, register, upload, certify) is the output of encryptGame, never *)
(* the plaintext bytes.                                                    *)
(***************************************************************************)
C17_EncryptBeforeCommit ==
    \A i \in LogIdx :
        Log[i].file = "game" => FlowContents(Log[i].flow).kind = "sealed"

\* The last progress event the callback received.
LastEvent == dl.events[Len(dl.events)]

\* The verify stage passed: the "downloading" event was emitted.
ReachedFetch == Includes(dl.events, Progress("downloading", 30))

C19_ObservableStages ==
    [][(up.pc \in {"encode", "register", "upload", "certify"} /\ up'.pc # up.pc)
          => up'.progress # up.progress]_vars

C22_OwnerIsApproved ==
    (keyReq.caller # Null /\ keyReq.owned) => keyReq.approved

Controls == {"deactivate_game", "update_game_price"}

C24_PublisherControls ==
    [][\A g \in GameIds :
          games[g].published =>
            /\ (tx'.fn \in Controls /\ tx'.game = g) =>
                  IF tx'.sender = games[g].publisher
                     THEN tx'.abort = NoAbort
                     ELSE /\ tx'.abort = ENotOwner
                          /\ games'[g].price = games[g].price
                          /\ games'[g].is_active = games[g].is_active
            /\ (tx'.fn = "deactivate_game" /\ tx'.game = g
                   /\ tx'.abort = NoAbort) => ~games'[g].is_active
            /\ (games'[g].price # games[g].price
                   \/ games'[g].is_active # games[g].is_active) =>
                  /\ tx'.fn \in Controls
                  /\ tx'.game = g
                  /\ tx'.abort = NoAbort
                  /\ tx'.sender = games[g].publisher]_vars

\* A deactivated game on which somebody else's price update aborted.
C24_Witness ==
    /\ tx.fn = "update_game_price"
    /\ tx.abort = ENotOwner
    /\ tx.sender # games[tx.game].publisher
    /\ ~games[tx.game].is_active

(***************************************************************************)
(* C25  Write-once content: once a Game is published, its id and its       *)
(* walrus_blob_id never change, whatever transaction executes.             *)
(***************************************************************************)
C25_WriteOnceContent ==
    [][\A g \in GameIds :
          games[g].published =>
            /\ games'[g].published
            /\ games'[g].id = games[g].id
            /\ games'[g].walrus_blob_id = games[g].walrus_blob_id]_vars

\* A game that was sold, repriced by its publisher and deactivated, after a
\* token changed hands, still carrying the locator it was published with.
C25_Witness ==
    \E g \in GameIds :
       /\ games[g].published
       /\ games[g].total_sales > 0
       /\ ~games[g].is_active
       /\ transfers > 0
       /\ tx.fn = "update_game_price" /\ tx.abort = NoAbort /\ tx.game = g
       /\ games[g].id = g
       /\ games[g].walrus_blob_id = IF g = "gA" THEN "patchA" ELSE "patchB"

(***************************************************************************)
(* C28  Purchase bookkeeping: purchase_game executes exactly when the game *)
(* is active and the payment is at least the price; an executed purchase   *)
(* adds 1 to total_sales, mints exactly one GameNFT with the game's id and *)
(* is_publisher_nft false, and sends the payment to the publisher; an      *)
(* aborted purchase changes nothing; so total_sales is always the number   *)
(* of purchaser tokens minted for the game.                                *)
(***************************************************************************)
PurchaserTokens(g) ==
    {n \in NftIds : nfts[n].minted /\ nfts[n].game_id = g
                                   /\ ~nfts[n].is_publisher_nft}

PurchaseStep ==
    /\ tx'.fn = "purchase_game"
    /\ <<tx, games, nfts>>' # <<tx, games, nfts>>

C28_PurchaseBookkeeping ==
    /\ [](\A g \in GameIds : games[g].total_sales = Cardinality(PurchaserTokens(g)))
    /\ [][PurchaseStep =>
            LET g == tx'.game IN
            /\ (tx'.abort = NoAbort) <=>
                  (games[g].is_active /\ tx'.payment >= games[g].price)
            /\ (tx'.abort = NoAbort) =>
                  /\ games' = [games EXCEPT ![g].total_sales = @ + 1]
                  /\ \E n \in FreeNfts :
                        /\ nfts' = [nfts EXCEPT ![n] = nfts'[n]]
                        /\ nfts'[n].minted
                        /\ nfts'[n].game_id = games[g].id
                        /\ nfts'[n].is_publisher_nft = FALSE
                  /\ tx'.paidTo = games[g].publisher
            /\ (tx'.abort # NoAbort) =>
                  /\ games' = games
                  /\ nfts' = nfts
                  /\ tx'.paidTo = Null]_vars

\* Two sales of one game, followed by a purchase that aborted.
C28_Witness ==
    /\ tx.fn = "purchase_game"
    /\ tx.abort = EInsufficientPayment
    /\ games[tx.game].total_sales = 2
    /\ Cardinality(PurchaserTokens(tx.game)) = 2

(***************************************************************************)
(* C26  Strictly sequential download pipeline: within one downloadGame     *)
(* call verifyOwnership, downloadFromWalrus and decryptWithSeal are        *)
(* invoked in that order, each at most once; a stage is invoked only after *)
(* every earlier stage returned successfully, and a stage that failed is   *)
(* the last one invoked.                                                   *)
(***************************************************************************)
Pipeline == <<"verifyOwnership", "downloadFromWalrus", "decryptWithSeal">>

IsPrefix(p, q) == Len(p) <= Len(q) /\ \A i \in 1..Len(p) : p[i] = q[i]

C26_SequentialPipeline ==
    dl.pc # "idle" =>
      /\ Len(dl.steps) >= 1
      /\ IsPrefix(dl.steps, Pipeline)
      /\ Len(dl.outcomes) = IF dl.pc \in {"resolved", "rejected"}
                               THEN Len(dl.steps) ELSE Len(dl.steps) - 1
      /\ \A i \in 1..(Len(dl.steps) - 1) : dl.outcomes[i] = TRUE
      /\ dl.pc = "resolved" => /\ dl.steps = Pipeline
                               /\ dl.outcomes[Len(Pipeline)] = TRUE
      /\ dl.pc = "rejected" => dl.outcomes[Len(dl.steps)] = FALSE

\* A second call on the same manager whose fetch failed: two stages were
\* invoked, decryptWithSeal was not.
C26_Witness ==
    /\ dl.pc = "rejected"
    /\ dl.calls = 2
    /\ dl.steps = <<"verifyOwnership", "downloadFromWalrus">>
    /\ dl.outcomes = <<TRUE, FALSE>>

(***************************************************************************)
(* C27  Download progress protocol: the events of one call are verifying   *)
(* (10), downloading (30), decrypting (70), complete (100) in this order,  *)
(* or a proper prefix of them followed by exactly one error (0); complete  *)
(* is emitted exactly when the promise resolves and error exactly when it  *)
(* rejects.                                                                *)
(***************************************************************************)
FullProgress ==
    <<Progress("verifying", 10), Progress("downloading", 30),
      Progress("decrypting", 70), Progress("complete", 100)>>

StagesOf(events) == {events[i].stage : i \in 1..Len(events)}

C27_ProgressProtocol ==
    dl.pc # "idle" =>
      /\ Len(dl.events) >= 1
      /\ CASE dl.pc = "resolved" -> dl.events = FullProgress
            [] dl.pc = "rejected" ->
                 /\ Len(dl.events) \in 2..4
                 /\ IsPrefix(SubSeq(dl.events, 1, Len(dl.events) - 1), FullProgress)
                 /\ dl.events[Len(dl.events)] = Progress("error", 0)
            [] OTHER ->
                 /\ Len(dl.events) <= 3
                 /\ IsPrefix(dl.events, FullProgress)
      /\ "complete" \in StagesOf(dl.events) <=> dl.pc = "resolved"
      /\ "error" \in StagesOf(dl.events) <=> dl.pc = "rejected"

\* A call that was refused at verification: verifying, then error.
C27_Witness ==
    /\ dl.pc = "rejected"
    /\ dl.events = <<Progress("verifying", 10), Progress("error", 0)>>
    /\ dl.outcomes = <<FALSE>>

(***************************************************************************)
(* C29  Single publish flow: while a publish flow is in flight the publish *)
(* button is disabled (isUploading is true), so no second flow can start;  *)
(* and in every terminal outcome (early return, upload failure, ledger     *)
(* refusal, success) isUploading is false again.                           *)
(***************************************************************************)
FlowInFlight ==
    up.pc \in {"encode", "register", "upload", "certify", "list", "publish"}

FlowEnded == up.pc \in {"rejected", "failed", "unpublished", "done"}

C29_SinglePublishFlow ==
    /\ FlowInFlight => uploadProgress.isUploading /\ publishDisabled(TRUE)
    /\ FlowEnded => ~uploadProgress.isUploading /\ ~publishDisabled(TRUE)
    /\ up.pc = "idle" => ~publishDisabled(TRUE)

\* The ledger refused the publish transaction after both uploads: the
\* button is enabled again.
C29_Witness ==
    /\ up.pc = "unpublished"
    /\ up.hasCover
    /\ up.coverImageWalrusId # ""
    /\ ~uploadProgress.isUploading
    /\ ~publishDisabled(TRUE)

(***************************************************************************)
(* C30  Access follows the connected account: on the secure download page  *)
(* accessGranted is true only while a check for the account now connected  *)
(* and the gameId now in the route grants access; after either changes,    *)
(* the stored result is the one of a new check.  Stated for a ledger on    *)
(* which no token moved since the page's check.                            *)
(***************************************************************************)
C30_AccessFollowsAccount ==
    (page.accessChecked /\ page.accessGranted /\ page.t0 = transfers) =>
        /\ verifyAccess(page.gameId, page.user).accessGranted
        /\ verifyAccess(page.gameId, page.user).gameData = page.gameData

====
